---- MODULE Spec2Model ----
(***************************************************************************)
(* Job control and signal coordination of smallsh (src/smallsh.c).         *)
(*                                                                         *)
(* The interpreter is one thread of control (main) that a SIGTSTP handler  *)
(* (catchSIGTSTP) preempts between any two statements; children run        *)
(* concurrently with it.  Process identifiers are fresh: the kernel does   *)
(* not hand out an identifier twice within one run of the model.  Once a   *)
(* child has been collected by a wait the kernel keeps nothing of it.      *)
(***************************************************************************)
EXTENDS Integers, Sequences, FiniteSets, TLC

\* ---------------------------------------------------------------- bounds
\* backgroundPIDs[200] scaled down: number of job-table slots
Capacity == 2
\* number of children the kernel lets the interpreter fork in one run
MaxChildren == 3
\* number of SIGTSTP deliveries in one run
MaxToggles == 2
\* number of trailing & tokens on an input line
MaxAmps == 2
\* number of characters of an input line before its newline
MaxLine == 5
\* number of words of an input line
MaxArgs == 6

\* ------------------------------------------------------- program constants
\* the "bogus value" of an empty job-table slot and of fresh pid variables
EmptySlot == -5
SIGINT == 2
SIGKILL == 9
\* signals another process may send to a running program (SIGTERM)
KillSignals == {15}
\* exit(1) of a child whose tryToRunCommand returned
LaunchFailureStatus == 1

Pids == 1..MaxChildren
Slots == 0..(Capacity - 1)
\* exit codes of a program that was started
ProgramExitCodes == {0}
\* what tryToRunCommand runs into
LaunchKinds == {"ok", "openfail", "execfail"}

\* ------------------------------------------------ wait status (sys/wait.h)
\* status word the kernel stores for exit(n) / death by signal n
ExitedWith(n) == (n % 256) * 256
SignaledWith(n) == n
WIFEXITED(s) == (s % 128) = 0
WEXITSTATUS(s) == (s \div 256) % 256
WIFSIGNALED(s) == (s % 128) \notin {0, 127}
WTERMSIG(s) == s % 128

VARIABLES
  pc,                       \* position of main: reap, prompt, dispatch, ...
  hpc,                      \* position of catchSIGTSTP: idle, wait, flip
  eintr,                    \* main's blocking waitpid was interrupted
  turnOffBackground, currentForegroundPID, foreChildExitMethod,
  childPid, backgroundChildPID, backgroundChildExitMethod,
  backgroundPIDs, nextOpenPosition,
  noForegroundProcessesRun, killedByExit, killedBySignal,
  exitStatusCode, termSignal,
  amps,                     \* number of trailing & tokens in argumentArray
  children,                 \* the kernel's view of every forked child
  nextPid,                  \* next identifier fork() returns
  shellExit,                \* exit code of the interpreter, -1 while running
  tstpCount,                \* SIGTSTP deliveries so far
  printed,                  \* completion records above the current prompt
  reportCount,              \* per pid, completion records printed so far
  killed,                   \* <<slot, pid, signal>> of every kill() call
  lost,                     \* pids overwritten in the table while occupied
  shown,                    \* what the status built-in printed this iteration
  statusOf,                 \* foreground child the status record was taken for
  fgTruth,                  \* how the child childPid really ended
  dx,                       \* one pass of a line through lines 440-476
  lx                        \* one pass of a token sequence to execvp

\* the variables of job control and signal coordination
jobVars == <<pc, hpc, eintr, turnOffBackground, currentForegroundPID,
             foreChildExitMethod, childPid, backgroundChildPID,
             backgroundChildExitMethod, backgroundPIDs, nextOpenPosition,
             noForegroundProcessesRun, killedByExit, killedBySignal,
             exitStatusCode, termSignal, amps, children, nextPid,
             shellExit, tstpCount, printed, reportCount, killed, lost, shown,
             statusOf, fgTruth>>

\* the variables of the line preprocessor and of the launcher taken on their
\* own
pureVars == <<dx, lx>>

vars == <<jobVars, pureVars>>

\* what only main writes
mainVars == <<pc, eintr, childPid, backgroundChildPID,
              backgroundChildExitMethod, backgroundPIDs, nextOpenPosition,
              noForegroundProcessesRun, killedByExit, killedBySignal,
              exitStatusCode, termSignal, amps, nextPid, shellExit>>

\* what only the handler and the signal's delivery write
handlerVars == <<hpc, turnOffBackground, tstpCount>>

\* the observations main makes
obsVars == <<printed, reportCount, killed, lost, shown, statusOf>>

statusRecord == <<noForegroundProcessesRun, killedByExit, killedBySignal,
                  exitStatusCode, termSignal>>

\* how a child ended: the status word the kernel keeps for its parent, what
\* brought the end about, and the end in the words of a completion record
NoEnd == [status |-> -1, cause |-> "none", text |-> <<"none", 0>>]
Exited(n, why) == [status |-> ExitedWith(n), cause |-> why,
                   text |-> <<"exit", n>>]
Signaled(n) == [status |-> SignaledWith(n), cause |-> "signal",
                text |-> <<"signal", n>>]
\* the end of the foreground child main forked last
NoTruth == [end |-> NoEnd]

\* a child that fork() has not created yet
NoChild == [kind |-> "none", st |-> "none", sigint |-> "IGN",
            execAttempted |-> FALSE, end |-> NoEnd]

\* what is left of a child after a wait collected it
Collected(c) == [kind |-> c.kind, st |-> "reaped", sigint |-> "IGN",
                 execAttempted |-> FALSE, end |-> NoEnd]

Live(c) == c.st \in {"pre", "run"}
\* children waitpid can still collect or block on
Waitable(ch) == {p \in Pids : ch[p].st \in {"pre", "run", "zombie"}}
Zombies(ch) == {p \in Pids : ch[p].st = "zombie"}
Occupied(tab) == {i \in Slots : tab[i] # EmptySlot}

\* exitStatusCode and termSignal are declared without a value (lines 318,
\* 320): until the first assignment they hold Indeterminate, and a read of
\* it yields any of these values
Indeterminate == -1
Uninitialised == {0, 77}
Read(x) == IF x = Indeterminate THEN Uninitialised ELSE {x}

\* lines 37-39 and 304-376: the interpreter after its declarations
ShellInit ==
  /\ pc = "reap" /\ hpc = "idle" /\ eintr = FALSE
  /\ turnOffBackground = FALSE
  /\ currentForegroundPID = 0
  /\ foreChildExitMethod = -5
  /\ childPid = -5 /\ backgroundChildPID = -5
  /\ backgroundChildExitMethod = -5
  /\ backgroundPIDs = [i \in Slots |-> EmptySlot]
  /\ nextOpenPosition = 0
  /\ noForegroundProcessesRun = TRUE
  /\ killedByExit = FALSE /\ killedBySignal = FALSE
  /\ exitStatusCode = Indeterminate /\ termSignal = Indeterminate
  /\ amps = 0
  /\ children = [p \in Pids |-> NoChild]
  /\ nextPid = 1
  /\ shellExit = -1
  /\ tstpCount = 0
  /\ printed = {} /\ reportCount = [p \in Pids |-> 0]
  /\ killed = {} /\ lost = {}
  /\ shown = <<"none", 0>> /\ statusOf = 0
  /\ fgTruth = NoTruth

\* no line is being followed through the preprocessor
NoLine == [pc |-> "none"]

\* no token sequence is being followed through the launcher
NoLaunch == [pc |-> "none"]

Init == ShellInit /\ dx = NoLine /\ lx = NoLaunch

\* ------------------------------------------------------------- waitpid(2)
\* the children a waitpid(pid, ...) of the interpreter selects
Targets(ch, pid) ==
  IF pid > 0 THEN {pid} \cap Waitable(ch)
  ELSE IF pid = 0 \/ pid = -1 THEN Waitable(ch)
  ELSE {}

Collect(ch, p) == [ch EXCEPT ![p] = Collected(ch[p])]

\* ------------------------------------------------- catchSIGTSTP (handler)
\* the kernel delivers SIGTSTP to the interpreter: the handler preempts main
\* wherever main is; a waitpid main is blocked in returns EINTR afterwards
DeliverSIGTSTP ==
  /\ hpc = "idle" /\ shellExit = -1
  /\ tstpCount < MaxToggles
  /\ tstpCount' = tstpCount + 1
  /\ hpc' = "wait"
  /\ IF pc = "fgwait" /\ ~eintr
       THEN \E blocked \in BOOLEAN : eintr' = blocked
       ELSE eintr' = eintr
  /\ UNCHANGED <<pc, turnOffBackground, currentForegroundPID,
                 foreChildExitMethod, childPid, backgroundChildPID,
                 backgroundChildExitMethod, backgroundPIDs, nextOpenPosition,
                 noForegroundProcessesRun, killedByExit, killedBySignal,
                 exitStatusCode, termSignal, amps, children,
                 nextPid, shellExit, fgTruth>>
  /\ UNCHANGED obsVars
  /\ UNCHANGED pureVars

\* a handler whose waitpid does not block (WNOHANG in place of 0)
HandlerWait_NoHang ==
  /\ hpc = "wait"
  /\ LET Z == Targets(children, currentForegroundPID) \cap Zombies(children)
     IN \/ /\ Z = {}
           /\ UNCHANGED <<children, foreChildExitMethod>>
        \/ \E p \in Z :
             /\ children' = Collect(children, p)
             /\ foreChildExitMethod' = children[p].end.status
  /\ hpc' = "flip"
  /\ UNCHANGED <<turnOffBackground, currentForegroundPID, tstpCount, fgTruth>>
  /\ UNCHANGED mainVars
  /\ UNCHANGED obsVars
  /\ UNCHANGED pureVars

\* line 61: waitpid(currentForegroundPID, &foreChildExitMethod, 0) blocks
\* while a selected child runs, collects a selected zombie, and fails with
\* ECHILD when it selects no child
HandlerWait ==
  /\ hpc = "wait"
  /\ LET T == Targets(children, currentForegroundPID) IN
       \/ /\ T = {}
          /\ UNCHANGED <<children, foreChildExitMethod>>
       \/ \E p \in T \cap Zombies(children) :
            /\ children' = Collect(children, p)
            /\ foreChildExitMethod' = children[p].end.status
  /\ hpc' = "flip"
  /\ UNCHANGED <<turnOffBackground, currentForegroundPID, tstpCount, fgTruth>>
  /\ UNCHANGED mainVars
  /\ UNCHANGED obsVars
  /\ UNCHANGED pureVars

\* a handler that also resets the status record's "none has run" flag
HandlerFlip_ResetsRecord ==
  /\ hpc = "flip"
  /\ turnOffBackground' = ~turnOffBackground
  /\ hpc' = "idle"
  /\ noForegroundProcessesRun' = TRUE
  /\ UNCHANGED <<currentForegroundPID, foreChildExitMethod, children,
                 tstpCount, fgTruth>>
  /\ UNCHANGED <<pc, eintr, childPid, backgroundChildPID,
                 backgroundChildExitMethod, backgroundPIDs, nextOpenPosition,
                 killedByExit, killedBySignal, exitStatusCode, termSignal,
                 amps, nextPid, shellExit>>
  /\ UNCHANGED obsVars
  /\ UNCHANGED pureVars

\* lines 63-75: flip the mode and write the mode's message
HandlerFlip ==
  /\ hpc = "flip"
  /\ turnOffBackground' = ~turnOffBackground
  /\ hpc' = "idle"
  /\ UNCHANGED <<currentForegroundPID, foreChildExitMethod, children,
                 tstpCount, fgTruth>>
  /\ UNCHANGED mainVars
  /\ UNCHANGED obsVars
  /\ UNCHANGED pureVars

\* ------------------------------------------------------------------- main
\* a reap pass that prints the record and leaves the pid in its slot
ClearSlot_Skipped(tab, i) == tab

\* lines 402 and 409: backgroundPIDs[reaperIndex] = -5
ClearSlot(tab, i) == [tab EXCEPT ![i] = EmptySlot]

\* one slot of the reap pass, lines 391-416; r carries the pass's state
ReapSlot(r, i) ==
  LET p == r.tab[i]
      c == r.ch[p]
      \* waitpid(p, &backgroundChildExitMethod, WNOHANG)
      dummyPID == IF c.st = "zombie" THEN p
                  ELSE IF c.st = "reaped" THEN -1
                  ELSE 0
      bcem == IF dummyPID > 0 THEN c.end.status ELSE r.bcem
      rec == IF WIFEXITED(bcem) THEN {<<p, "exit", WEXITSTATUS(bcem)>>}
             ELSE IF WIFSIGNALED(bcem) THEN {<<p, "signal", WTERMSIG(bcem)>>}
             ELSE {}
  IN IF r.tab[i] = EmptySlot \/ dummyPID = 0 THEN r
     ELSE [tab |-> IF rec # {} THEN ClearSlot(r.tab, i) ELSE r.tab,
           bcem |-> 0,
           ch |-> IF dummyPID > 0 THEN Collect(r.ch, p) ELSE r.ch,
           out |-> r.out \cup rec,
           cnt |-> IF rec # {} THEN [r.cnt EXCEPT ![p] = @ + 1] ELSE r.cnt]

RECURSIVE ReapFrom(_, _)
ReapFrom(r, i) == IF i >= Capacity THEN r ELSE ReapFrom(ReapSlot(r, i), i + 1)

\* lines 381-417: clear argumentArray, then the reap pass
ReapCompleted ==
  /\ pc = "reap" /\ hpc = "idle"
  /\ LET r == ReapFrom([tab |-> backgroundPIDs,
                        bcem |-> backgroundChildExitMethod,
                        ch |-> children, out |-> {}, cnt |-> reportCount], 0)
     IN /\ backgroundPIDs' = r.tab
        /\ backgroundChildExitMethod' = r.bcem
        /\ children' = r.ch
        /\ printed' = r.out
        /\ reportCount' = r.cnt
  /\ amps' = 0
  /\ shown' = <<"none", 0>>
  /\ pc' = "prompt"
  /\ UNCHANGED <<eintr, currentForegroundPID, foreChildExitMethod, childPid,
                 backgroundChildPID, nextOpenPosition, nextPid, shellExit,
                 killed, lost, statusOf, fgTruth>>
  /\ UNCHANGED statusRecord
  /\ UNCHANGED handlerVars
  /\ UNCHANGED pureVars

\* lines 534-551: the lines the status built-in can print in this state
\* (one line, unless it reads an int that was never assigned; no line when
\* neither killedByExit nor killedBySignal is set)
StatusText ==
  IF noForegroundProcessesRun THEN {<<"exit", 0>>}
  ELSE IF killedByExit THEN {<<"exit", v>> : v \in Read(exitStatusCode)}
  ELSE IF killedBySignal THEN {<<"signal", v>> : v \in Read(termSignal)}
  ELSE {<<"none", 0>>}

\* lines 680-688: kill() for every occupied slot
KillAll(tab) == {<<i, tab[i], SIGKILL>> : i \in Occupied(tab)}

\* lines 420-552 and 672-691: prompt, read a line, and run it if it is a
\* built-in.  A blank line, cd and a comment line change nothing and start
\* the next iteration; status prints the record; exit leaves the loop,
\* signals the table's processes and returns 0.
ReadBuiltin ==
  /\ pc = "prompt" /\ hpc = "idle"
  /\ \E line \in {"blank", "cd", "comment", "status", "exit"} :
       /\ IF line = "status" THEN shown' \in StatusText
                             ELSE shown' = shown
       /\ printed' = {}
       /\ IF line = "exit"
            THEN /\ pc' = "done"
                 /\ killed' = KillAll(backgroundPIDs)
                 /\ shellExit' = 0
            ELSE /\ pc' = "reap"
                 /\ UNCHANGED <<killed, shellExit>>
  /\ UNCHANGED <<eintr, currentForegroundPID, foreChildExitMethod, childPid,
                 backgroundChildPID, backgroundChildExitMethod,
                 backgroundPIDs, nextOpenPosition, amps, children, nextPid,
                 reportCount, lost, statusOf, fgTruth>>
  /\ UNCHANGED statusRecord
  /\ UNCHANGED handlerVars
  /\ UNCHANGED pureVars

\* lines 420-475 and 554-564: read a line that is not a built-in: a program
\* name and its arguments followed by a trailing & tokens
ReadCommand ==
  /\ pc = "prompt" /\ hpc = "idle"
  /\ \E a \in 0..MaxAmps : amps' = a
  /\ printed' = {}
  /\ pc' = "dispatch"
  /\ UNCHANGED <<eintr, currentForegroundPID, foreChildExitMethod, childPid,
                 backgroundChildPID, backgroundChildExitMethod,
                 backgroundPIDs, nextOpenPosition, children, nextPid,
                 shellExit, fgTruth>>
  /\ UNCHANGED statusRecord
  /\ UNCHANGED handlerVars
  /\ UNCHANGED <<reportCount, killed, lost, shown, statusOf>>
  /\ UNCHANGED pureVars

\* lines 364-366: the interpreter ignores SIGINT; fork() hands the
\* disposition on to the child
ShellSigint == "IGN"

\* lines 567-574: in foreground-only mode remove a trailing &
StripAmp ==
  /\ pc = "dispatch" /\ hpc = "idle"
  /\ amps' = IF turnOffBackground /\ amps > 0 THEN amps - 1 ELSE amps
  /\ pc' = "fork"
  /\ UNCHANGED <<eintr, currentForegroundPID, foreChildExitMethod, childPid,
                 backgroundChildPID, backgroundChildExitMethod,
                 backgroundPIDs, nextOpenPosition, children, nextPid,
                 shellExit, fgTruth>>
  /\ UNCHANGED statusRecord
  /\ UNCHANGED handlerVars
  /\ UNCHANGED obsVars
  /\ UNCHANGED pureVars

\* the child fork() creates: a copy of the interpreter
NewChild(k) == [kind |-> k, st |-> "pre", sigint |-> ShellSigint,
                execAttempted |-> FALSE, end |-> NoEnd]

\* fork() returned -1 and the loop goes on with the next iteration
ForkFailed_Continues ==
  /\ pc = "fork" /\ hpc = "idle"
  /\ pc' = "reap"
  /\ UNCHANGED <<eintr, currentForegroundPID, foreChildExitMethod, childPid,
                 backgroundChildPID, backgroundChildExitMethod,
                 backgroundPIDs, nextOpenPosition, amps, children, nextPid,
                 shellExit, fgTruth>>
  /\ UNCHANGED statusRecord
  /\ UNCHANGED handlerVars
  /\ UNCHANGED obsVars
  /\ UNCHANGED pureVars

\* lines 581-584 and 617-620: fork() returned -1: perror, exit(1)
ForkFailed ==
  /\ pc = "fork" /\ hpc = "idle"
  /\ pc' = "done"
  /\ shellExit' = 1
  /\ UNCHANGED <<eintr, currentForegroundPID, foreChildExitMethod, childPid,
                 backgroundChildPID, backgroundChildExitMethod,
                 backgroundPIDs, nextOpenPosition, amps, children, nextPid,
                 fgTruth>>
  /\ UNCHANGED statusRecord
  /\ UNCHANGED handlerVars
  /\ UNCHANGED obsVars
  /\ UNCHANGED pureVars

\* lines 577-579: the last token is &: fork a background child
ForkBackground ==
  /\ pc = "fork" /\ hpc = "idle"
  /\ amps > 0
  /\ nextPid <= MaxChildren
  /\ backgroundChildPID' = nextPid
  /\ children' = [children EXCEPT ![nextPid] = NewChild("bg")]
  /\ nextPid' = nextPid + 1
  /\ pc' = "register"
  /\ UNCHANGED <<eintr, currentForegroundPID, foreChildExitMethod, childPid,
                 backgroundChildExitMethod, backgroundPIDs, nextOpenPosition,
                 amps, shellExit, fgTruth>>
  /\ UNCHANGED statusRecord
  /\ UNCHANGED handlerVars
  /\ UNCHANGED obsVars
  /\ UNCHANGED pureVars

\* an insertion position that stops at the last slot instead of wrapping
Advance_NoWrap(pos) == IF pos = Capacity - 1 THEN pos ELSE pos + 1

\* lines 600-607: the insertion position after a registration
Advance(pos) == IF pos = Capacity - 1 THEN 0 ELSE pos + 1

\* lines 595-607: the parent announces the child and stores its pid
Register ==
  /\ pc = "register" /\ hpc = "idle"
  /\ backgroundPIDs' =
       [backgroundPIDs EXCEPT ![nextOpenPosition] = backgroundChildPID]
  /\ nextOpenPosition' = Advance(nextOpenPosition)
  /\ lost' = IF backgroundPIDs[nextOpenPosition] # EmptySlot
               THEN lost \cup {backgroundPIDs[nextOpenPosition]}
               ELSE lost
  /\ pc' = "reap"
  /\ UNCHANGED <<eintr, currentForegroundPID, foreChildExitMethod, childPid,
                 backgroundChildPID, backgroundChildExitMethod, amps,
                 children, nextPid, shellExit, printed, reportCount, killed,
                 shown, statusOf, fgTruth>>
  /\ UNCHANGED statusRecord
  /\ UNCHANGED handlerVars
  /\ UNCHANGED pureVars

\* line 615: the last token is not &: fork a foreground child
ForkForeground ==
  /\ pc = "fork" /\ hpc = "idle"
  /\ amps = 0
  /\ nextPid <= MaxChildren
  /\ childPid' = nextPid
  /\ children' = [children EXCEPT ![nextPid] = NewChild("fg")]
  /\ nextPid' = nextPid + 1
  /\ fgTruth' = NoTruth
  /\ pc' = "fgrecord"
  /\ UNCHANGED <<eintr, currentForegroundPID, foreChildExitMethod,
                 backgroundChildPID, backgroundChildExitMethod,
                 backgroundPIDs, nextOpenPosition, amps, shellExit>>
  /\ UNCHANGED statusRecord
  /\ UNCHANGED handlerVars
  /\ UNCHANGED obsVars
  /\ UNCHANGED pureVars

\* line 638: currentForegroundPID = childPid
RecordForeground ==
  /\ pc = "fgrecord" /\ hpc = "idle"
  /\ currentForegroundPID' = childPid
  /\ pc' = "fgwait"
  /\ UNCHANGED <<eintr, foreChildExitMethod, childPid, backgroundChildPID,
                 backgroundChildExitMethod, backgroundPIDs, nextOpenPosition,
                 amps, children, nextPid, shellExit, fgTruth>>
  /\ UNCHANGED statusRecord
  /\ UNCHANGED handlerVars
  /\ UNCHANGED obsVars
  /\ UNCHANGED pureVars

\* line 639: waitpid(childPid, &foreChildExitMethod, 0).  It returns when
\* the child is a zombie (collecting it), at once when the child is not a
\* waitable child any more (ECHILD), and with EINTR when the handler ran
\* while main was blocked in it
WaitForeground ==
  /\ pc = "fgwait" /\ hpc = "idle"
  /\ \/ /\ eintr
        /\ UNCHANGED <<children, foreChildExitMethod>>
     \/ /\ ~eintr
        /\ Targets(children, childPid) = {}
        /\ UNCHANGED <<children, foreChildExitMethod>>
     \/ /\ ~eintr
        /\ childPid \in Zombies(children)
        /\ children' = Collect(children, childPid)
        /\ foreChildExitMethod' = children[childPid].end.status
  /\ eintr' = FALSE
  /\ pc' = "fgstatus"
  /\ UNCHANGED <<currentForegroundPID, childPid, backgroundChildPID,
                 backgroundChildExitMethod, backgroundPIDs, nextOpenPosition,
                 amps, nextPid, shellExit, fgTruth>>
  /\ UNCHANGED statusRecord
  /\ UNCHANGED handlerVars
  /\ UNCHANGED obsVars
  /\ UNCHANGED pureVars

\* lines 640-656: take the status record from foreChildExitMethod
RecordStatus ==
  /\ pc = "fgstatus" /\ hpc = "idle"
  /\ noForegroundProcessesRun' = FALSE
  /\ LET s == foreChildExitMethod
         sig == WIFSIGNALED(s)
         ex == WIFEXITED(s)
     IN /\ termSignal' = IF sig THEN WTERMSIG(s) ELSE termSignal
        /\ exitStatusCode' = IF ex THEN WEXITSTATUS(s) ELSE exitStatusCode
        /\ killedBySignal' = IF ex THEN FALSE
                             ELSE IF sig THEN TRUE ELSE killedBySignal
        /\ killedByExit' = IF ex THEN TRUE
                           ELSE IF sig THEN FALSE ELSE killedByExit
  /\ statusOf' = childPid
  /\ pc' = "reap"
  /\ UNCHANGED <<eintr, currentForegroundPID, foreChildExitMethod, childPid,
                 backgroundChildPID, backgroundChildExitMethod,
                 backgroundPIDs, nextOpenPosition, amps, children, nextPid,
                 shellExit, printed, reportCount, killed, lost, shown,
                 fgTruth>>
  /\ UNCHANGED handlerVars
  /\ UNCHANGED pureVars

\* --------------------------------------------------------------- children
shellVars == <<pc, hpc, eintr, turnOffBackground, currentForegroundPID,
               foreChildExitMethod, childPid, backgroundChildPID,
               backgroundChildExitMethod, backgroundPIDs, nextOpenPosition,
               noForegroundProcessesRun, killedByExit, killedBySignal,
               exitStatusCode, termSignal, amps, nextPid, shellExit,
               tstpCount>>

\* the end of child p, noted for the foreground child main last forked
Noted(p, e) == IF p = childPid THEN [fgTruth EXCEPT !.end = e] ELSE fgTruth

\* every child resets SIGINT to the default disposition
ChildSigint_AllDefault(c) == "DFL"

\* lines 586-589 and 623-629: the child's own sigaction calls; only the
\* foreground child resets SIGINT to the default disposition
ChildSigint(c) == IF c.kind = "fg" THEN "DFL" ELSE c.sigint

\* tryToRunCommand and the exit(1) after it.  A redirection target that
\* cannot be opened makes it return before execvp (lines 138, 150, 165,
\* 177); a failed execvp makes it return after (lines 206-212); a
\* successful execvp does not return
TryToRunCommand(c, l) ==
  IF l = "ok" THEN [c EXCEPT !.st = "run", !.execAttempted = TRUE]
  ELSE [c EXCEPT !.st = "zombie",
                 !.execAttempted = (l = "execfail"),
                 !.end = Exited(LaunchFailureStatus, l)]

\* lines 586-592 and 623-634: what the child does after fork()
ChildLaunch(p) ==
  /\ children[p].st = "pre"
  /\ \E l \in LaunchKinds :
       LET c == TryToRunCommand(
                  [children[p] EXCEPT !.sigint = ChildSigint(children[p])], l)
       IN /\ children' = [children EXCEPT ![p] = c]
          /\ fgTruth' = Noted(p, c.end)
  /\ UNCHANGED shellVars
  /\ UNCHANGED obsVars
  /\ UNCHANGED pureVars

\* the program the child became ends by itself
ProgramExits(p) ==
  /\ children[p].st = "run"
  /\ \E n \in ProgramExitCodes :
       LET e == Exited(n, "program")
       IN /\ children' = [children EXCEPT ![p].st = "zombie", ![p].end = e]
          /\ fgTruth' = Noted(p, e)
  /\ UNCHANGED shellVars
  /\ UNCHANGED obsVars
  /\ UNCHANGED pureVars

\* what a signal does to a process with disposition d
Dies(d) == d = "DFL"

\* SIGINT from the terminal goes to the interpreter and all its children;
\* each process acts on its own disposition
InterruptKey ==
  /\ shellExit = -1
  /\ LET hit == {p \in Pids : Live(children[p]) /\ Dies(children[p].sigint)}
         e == Signaled(SIGINT)
     IN /\ hit # {} \/ Dies(ShellSigint)
        /\ children' = [p \in Pids |->
             IF p \in hit
               THEN [children[p] EXCEPT !.st = "zombie", !.end = e]
               ELSE children[p]]
        /\ fgTruth' = IF childPid \in hit THEN Noted(childPid, e)
                                          ELSE fgTruth
  /\ IF Dies(ShellSigint)
       THEN /\ pc' = "done" /\ shellExit' = 128 + SIGINT
       ELSE UNCHANGED <<pc, shellExit>>
  /\ UNCHANGED <<hpc, eintr, turnOffBackground, currentForegroundPID,
                 foreChildExitMethod, childPid, backgroundChildPID,
                 backgroundChildExitMethod, backgroundPIDs, nextOpenPosition,
                 amps, nextPid, tstpCount>>
  /\ UNCHANGED statusRecord
  /\ UNCHANGED obsVars
  /\ UNCHANGED pureVars

\* another process sends a signal that ends a running program
TerminateChild(p) ==
  /\ children[p].st = "run"
  /\ \E n \in KillSignals :
       LET e == Signaled(n)
       IN /\ children' = [children EXCEPT ![p].st = "zombie", ![p].end = e]
          /\ fgTruth' = Noted(p, e)
  /\ UNCHANGED shellVars
  /\ UNCHANGED obsVars
  /\ UNCHANGED pureVars

Next ==
  \/ DeliverSIGTSTP
  \/ HandlerWait
  \/ HandlerFlip
  \/ ReapCompleted
  \/ ReadBuiltin
  \/ ReadCommand
  \/ StripAmp
  \/ ForkFailed
  \/ ForkBackground
  \/ Register
  \/ ForkForeground
  \/ RecordForeground
  \/ WaitForeground
  \/ RecordStatus
  \/ \E p \in Pids : ChildLaunch(p)
  \/ \E p \in Pids : ProgramExits(p)
  \/ InterruptKey
  \/ \E p \in Pids : TerminateChild(p)

Spec == Init /\ [][Next]_vars

\* =================================================== the line preprocessor
\* Lines 440-476 and dollarsToPID taken on their own: one input line is
\* followed from getline's buffer to the first use of argumentArray[0].
\* A C string is a sequence of characters; NUL is the character strtok
\* writes over a delimiter, and a string ends at the first NUL or at the
\* end of the sequence.

\* the characters of an input line, and the newline getline leaves at its end
LineChars == {"a", "$", " "}
Newline == "\n"
NUL == "NUL"
\* sprintf(PIDAsString, "%d", getpid()): the interpreter's pid in decimal
PIDAsString == <<"4", "2">>
\* dollarsToPID returns the address of its local correctedString (lines
\* 273-276).  What main then holds: a pointer to bytes that are still what
\* was stored, a pointer to bytes that were overwritten, or the null pointer
\* a compiler substitutes for the address of a dead local.
FrameOutcomes == {"kept", "clobbered", "null"}
Garbage == <<"?">>

\* all strings of exactly n characters, and of at most n
RECURSIVE StringsOfLen(_)
StringsOfLen(n) ==
  IF n = 0 THEN {<< >>}
  ELSE {Append(s, c) : s \in StringsOfLen(n - 1), c \in LineChars}
RECURSIVE StringsUpTo(_)
StringsUpTo(n) ==
  IF n = 0 THEN StringsOfLen(0) ELSE StringsOfLen(n) \cup StringsUpTo(n - 1)

\* strlen(buf): characters before the first NUL
RECURSIVE StrLenFrom(_, _)
StrLenFrom(buf, i) ==
  IF i > Len(buf) \/ buf[i] = NUL THEN i - 1 ELSE StrLenFrom(buf, i + 1)
StrLen(buf) == StrLenFrom(buf, 1)
\* the string a pointer to the start of buf is read as
CStr(buf) == SubSeq(buf, 1, StrLen(buf))

\* strtok(3).  A call scans from `from` (the start of the buffer when its
\* first argument is the buffer, the saved position when it is NULL): it
\* skips delimiters, returns NULL if the string ends there, and otherwise
\* returns the characters up to the next delimiter, which it overwrites with
\* NUL, saving the position after it (or the position of the string's end).
RECURSIVE SkipDelimiters(_, _, _)
SkipDelimiters(buf, i, delim) ==
  IF i <= Len(buf) /\ buf[i] # NUL /\ buf[i] \in delim
    THEN SkipDelimiters(buf, i + 1, delim) ELSE i
RECURSIVE ScanToken(_, _, _)
ScanToken(buf, j, delim) ==
  IF j <= Len(buf) /\ buf[j] # NUL /\ buf[j] \notin delim
    THEN ScanToken(buf, j + 1, delim) ELSE j
Strtok(buf, from, delim) ==
  LET i == SkipDelimiters(buf, from, delim) IN
    IF i > Len(buf) \/ buf[i] = NUL
      THEN [null |-> TRUE, str |-> << >>, buf |-> buf, saved |-> i]
      ELSE LET j == ScanToken(buf, i, delim) IN
             IF j > Len(buf) \/ buf[j] = NUL
               THEN [null |-> FALSE, str |-> SubSeq(buf, i, j - 1),
                     buf |-> buf, saved |-> j]
               ELSE [null |-> FALSE, str |-> SubSeq(buf, i, j - 1),
                     buf |-> [buf EXCEPT ![j] = NUL], saved |-> j + 1]

\* lines 249-270: the loop of dollarsToPID from `position` on (0-based as in
\* the source).  st.buf is inputString, st.saved strtok's saved position,
\* st.correctedString what has been appended so far, st.nullRead whether
\* strcat was handed strtok's NULL (line 255; carried on here as if it
\* appended nothing).
RECURSIVE DollarsLoop(_, _)
DollarsLoop(st, position) ==
  IF ~(position < StrLen(st.buf)) THEN st
  ELSE IF /\ st.buf[position + 1] = "$"
          /\ position + 1 < StrLen(st.buf)
          /\ st.buf[position + 2] = "$"
    THEN LET first == Strtok(st.buf, 1, {"$"})
             rest == Strtok(first.buf, first.saved, {"$"})
         IN DollarsLoop(
              [buf |-> rest.buf, saved |-> rest.saved,
               correctedString |-> st.correctedString \o first.str
                                     \o PIDAsString \o rest.str,
               stringNeededCorrecting |-> TRUE,
               nullRead |-> st.nullRead \/ first.null],
              position + 1)
    ELSE DollarsLoop(st, position + 1)

\* lines 232-282: dollarsToPID(inputString), called with strtok's saved
\* position at `saved`.  text is the string at the returned pointer at the
\* moment of the return; dangling tells that the pointer is to
\* correctedString, whose lifetime ends with the call; buf and saved are
\* the caller's buffer and strtok's position as the call leaves them.
DollarsToPID(inputString, saved) ==
  LET st == DollarsLoop([buf |-> inputString, saved |-> saved,
                         correctedString |-> << >>,
                         stringNeededCorrecting |-> FALSE,
                         nullRead |-> FALSE], 0)
  IN [text |-> IF st.stringNeededCorrecting THEN st.correctedString
                                            ELSE CStr(inputString),
      dangling |-> st.stringNeededCorrecting,
      nullRead |-> st.nullRead,
      buf |-> st.buf, saved |-> st.saved]

\* lines 452-469: the words strtok(..., " ") finds from `from` on
RECURSIVE TokensFrom(_, _)
TokensFrom(buf, from) ==
  LET t == Strtok(buf, from, {" "}) IN
    IF t.null THEN << >> ELSE <<t.str>> \o TokensFrom(t.buf, t.saved)

\* what dollarsToPID has not returned yet
NoReturn == [text |-> << >>, dangling |-> FALSE, nullRead |-> FALSE,
             buf |-> << >>, saved |-> 1]

\* getline has filled userInput with a line of at most MaxLine characters
\* and its newline; line keeps what was typed.  nullTraps: a read through a null pointer ends the
\* process (otherwise it reads an empty string); frame: what becomes of a
\* pointer into dollarsToPID's dead frame.
LineInit ==
  /\ ShellInit /\ lx = NoLaunch
  /\ \E s \in StringsUpTo(MaxLine), t \in BOOLEAN, f \in FrameOutcomes :
       dx = [pc |-> "read", line |-> s, userInput |-> Append(s, Newline),
             nullTraps |-> t, frame |-> f,
             saved |-> 1, returned |-> NoReturn,
             userInputFixed |-> << >>, fixedIsNull |-> FALSE,
             argumentArray |-> << >>]

\* lines 440-447: cut the line at its newline; a blank line starts the next
\* iteration
StripNewline ==
  /\ dx.pc = "read"
  /\ LET token == Strtok(dx.userInput, 1, {Newline}) IN
       dx' = [dx EXCEPT !.pc = IF token.null THEN "next" ELSE "expand",
                        !.userInput = token.buf,
                        !.saved = token.saved,
                        !.userInputFixed = token.str]
  /\ UNCHANGED <<jobVars, lx>>

\* line 449: userInputFixed = dollarsToPID(userInputFixed)
Expand ==
  /\ dx.pc = "expand"
  /\ LET r == DollarsToPID(dx.userInput, dx.saved) IN
       dx' = [dx EXCEPT
                !.pc = IF r.nullRead /\ dx.nullTraps THEN "fault"
                                                     ELSE "tokenise",
                !.returned = r,
                !.userInput = r.buf,
                !.saved = r.saved,
                !.fixedIsNull = r.dangling /\ dx.frame = "null",
                !.userInputFixed =
                   IF ~r.dangling \/ dx.frame = "kept" THEN r.text
                   ELSE IF dx.frame = "clobbered" THEN Garbage
                   ELSE << >>]
  /\ UNCHANGED <<jobVars, lx>>

\* lines 452-469: split the line into argumentArray; strtok handed a null
\* pointer goes on from its saved position in userInput
Split ==
  /\ dx.pc = "tokenise"
  /\ dx' = [dx EXCEPT
              !.pc = "first",
              !.argumentArray =
                 IF dx.fixedIsNull THEN TokensFrom(dx.userInput, dx.saved)
                                   ELSE TokensFrom(dx.userInputFixed, 1)]
  /\ UNCHANGED <<jobVars, lx>>

\* line 473: strcpy(firstArgument, argumentArray[0]); argumentArray[0] is
\* NULL when the line had no word
FirstArgument ==
  /\ dx.pc = "first"
  /\ dx' = [dx EXCEPT !.pc = IF dx.argumentArray = << >> /\ dx.nullTraps
                               THEN "fault" ELSE "dispatch"]
  /\ UNCHANGED <<jobVars, lx>>

LineNext ==
  \/ StripNewline
  \/ Expand
  \/ Split
  \/ FirstArgument

LineSpec == LineInit /\ [][LineNext]_vars

\* ============================================================ the launcher
\* Lines 554-577 of main and tryToRunCommand taken on their own: one token
\* sequence is followed from argumentArray to execvp.  argumentArray keeps
\* the source's indices from 0; NoArg is the null pointer of an unused entry.

\* the words of a line: a program name, argument or file name, the two
\* redirection operators and the background marker
Words == {"w", "<", ">", "&"}
NoArg == ""
\* entries of argumentArray (512 in the source): room for MaxArgs words and
\* the null entry after them
ArgSlots == MaxArgs + 1
ArgIndex == 0..(ArgSlots - 1)
\* what the system does with the child's calls: all succeed, or open() of a
\* named file for reading fails, or for writing, or open() of /dev/null,
\* or execvp() finds no program
Environments == {"ok", "unreadable", "unwritable", "nodevnull", "notfound"}

\* all sequences of exactly n words, and of 1 to n
RECURSIVE WordsOfLen(_)
WordsOfLen(n) ==
  IF n = 0 THEN {<< >>}
  ELSE {Append(s, w) : s \in WordsOfLen(n - 1), w \in Words}
RECURSIVE WordsUpTo(_)
WordsUpTo(n) ==
  IF n = 1 THEN WordsOfLen(1) ELSE WordsOfLen(n) \cup WordsUpTo(n - 1)

\* lines 381-385 and 452-469: argumentArray holding the words of a line
ArrayOf(words) ==
  [i \in ArgIndex |-> IF i < Len(words) THEN words[i + 1] ELSE NoArg]

\* lines 116-122 and 556-562: the last entry that is not null
LastIndex(arr) ==
  CHOOSE i \in ArgIndex :
    arr[i] # NoArg /\ \A j \in ArgIndex : arr[j] # NoArg => j <= i

\* the argument vector execvp reads: the entries before the first null one
RECURSIVE ArgvFrom(_, _)
ArgvFrom(arr, i) ==
  IF i \notin ArgIndex \/ arr[i] = NoArg THEN << >>
  ELSE <<arr[i]>> \o ArgvFrom(arr, i + 1)
Argv(arr) == ArgvFrom(arr, 0)

\* what a standard stream of the child is connected to: what fork() handed
\* down, /dev/null, or the file named by argumentArray[at]
Inherited == [to |-> "inherited", name |-> NoArg, at |-> -1]
DevNull == [to |-> "/dev/null", name |-> NoArg, at |-> -1]
File(arr, at) == [to |-> "file", name |-> arr[at], at |-> at]

\* the operator and the file name stay in the argument vector
Consume_Nothing(arr, opAt, fileAt) == arr

\* lines 142-143, 153-154, 169-170 and 180-181: the operator and the file
\* name are taken out of argumentArray
Consume(arr, opAt, fileAt) == [arr EXCEPT ![fileAt] = NoArg, ![opAt] = NoArg]

\* lines 134-157 and 161-184: one redirection check, on the operator at
\* opAt and the file name at fileAt.  st.returned tells that tryToRunCommand
\* has returned -1 and with which message; env tells which call the system
\* refuses.
Redirect(st, opAt, fileAt, env) ==
  IF st.returned # "no" THEN st
  ELSE IF st.arr[opAt] = "<"
    THEN IF env = "unreadable" THEN [st EXCEPT !.returned = "cannot open for input"]
         ELSE [st EXCEPT !.stdin = File(st.arr, fileAt),
                         !.arr = Consume(st.arr, opAt, fileAt),
                         !.inputRedirected = TRUE,
                         !.consumed = Append(st.consumed, opAt)]
  ELSE IF st.arr[opAt] = ">"
    THEN IF env = "unwritable"
           THEN [st EXCEPT !.returned = "cannot open for output"]
         ELSE [st EXCEPT !.stdout = File(st.arr, fileAt),
                         !.arr = Consume(st.arr, opAt, fileAt),
                         !.outputRedirected = TRUE,
                         !.consumed = Append(st.consumed, opAt)]
  ELSE st

\* a background child's standard input goes to /dev/null also after an
\* input redirection
DevNullIn_Always(st, isBackground, env) ==
  IF st.returned # "no" \/ ~isBackground THEN st
  ELSE IF env = "nodevnull" THEN [st EXCEPT !.returned = "cannot open /dev/null"]
  ELSE [st EXCEPT !.stdin = DevNull]

\* lines 190-203: a background child's streams that were not redirected go
\* to /dev/null
DevNullIn(st, isBackground, env) ==
  IF st.returned # "no" \/ ~(isBackground /\ ~st.inputRedirected) THEN st
  ELSE IF env = "nodevnull" THEN [st EXCEPT !.returned = "cannot open /dev/null"]
  ELSE [st EXCEPT !.stdin = DevNull]
DevNullOut(st, isBackground, env) ==
  IF st.returned # "no" \/ ~(isBackground /\ ~st.outputRedirected) THEN st
  ELSE IF env = "nodevnull" THEN [st EXCEPT !.returned = "cannot open /dev/null"]
  ELSE [st EXCEPT !.stdout = DevNull]

\* lines 96-214: tryToRunCommand(argumentArray, isBackground) with at least
\* one entry that is not null.  The result tells whether execvp was called
\* (returned = "no" or, when execvp came back, "no such file"), its vector,
\* and the child's streams.
TryToRun(argumentArray, isBackground, env) ==
  LET last == LastIndex(argumentArray)
      lastIndex == IF isBackground THEN last - 1 ELSE last
      s0 == [arr |-> IF isBackground
                       THEN [argumentArray EXCEPT ![last] = NoArg]
                       ELSE argumentArray,
             stdin |-> Inherited, stdout |-> Inherited,
             inputRedirected |-> FALSE, outputRedirected |-> FALSE,
             consumed |-> << >>, returned |-> "no"]
      s1 == IF lastIndex >= 1
              THEN Redirect(s0, lastIndex - 1, lastIndex, env) ELSE s0
      s2 == IF lastIndex >= 3
              THEN Redirect(s1, lastIndex - 3, lastIndex - 2, env) ELSE s1
      s3 == DevNullIn(s2, isBackground, env)
      s4 == DevNullOut(s3, isBackground, env)
  IN [execvp |-> s4.returned = "no",
      argv |-> IF s4.returned = "no" THEN Argv(s4.arr) ELSE << >>,
      stdin |-> s4.stdin, stdout |-> s4.stdout,
      consumed |-> s4.consumed,
      returned |-> IF s4.returned = "no" /\ env = "notfound"
                     THEN "no such file" ELSE s4.returned]

\* tryToRunCommand has not run
NoRun == [execvp |-> FALSE, argv |-> << >>, stdin |-> Inherited,
          stdout |-> Inherited, consumed |-> << >>, returned |-> "no"]
\* the tokeniser has filled argumentArray with the words of a line that is
\* not a built-in; the mode flag and the system's answers are any
LaunchInit ==
  /\ ShellInit /\ dx = NoLine
  /\ \E words \in WordsUpTo(MaxArgs), m \in BOOLEAN, e \in Environments :
       lx = [pc |-> "dispatch", words |-> words, turnOffBackground |-> m,
             env |-> e, argumentArray |-> ArrayOf(words),
             isBackground |-> FALSE, run |-> NoRun]

\* lines 554-577 and 579-634: find the last word, drop one trailing & in
\* foreground-only mode, choose the branch by the last word and fork.  With
\* no word left the comparison of line 577 reads argumentArray[-1].
Dispatch ==
  /\ lx.pc = "dispatch"
  /\ LET last == LastIndex(lx.argumentArray)
         strip == lx.turnOffBackground /\ lx.argumentArray[last] = "&"
         lastIndex == IF strip THEN last - 1 ELSE last
         arr == IF strip THEN [lx.argumentArray EXCEPT ![last] = NoArg]
                         ELSE lx.argumentArray
     IN IF lastIndex < 0
          THEN lx' = [lx EXCEPT !.pc = "undefined", !.argumentArray = arr]
          ELSE lx' = [lx EXCEPT !.pc = "child", !.argumentArray = arr,
                                !.isBackground = (arr[lastIndex] = "&")]
  /\ UNCHANGED <<jobVars, dx>>

\* lines 590 and 632: the child calls tryToRunCommand.  execvp with a null
\* program name is outside what the call defines.
TryRun ==
  /\ lx.pc = "child"
  /\ LET r == TryToRun(lx.argumentArray, lx.isBackground, lx.env) IN
       lx' = [lx EXCEPT !.run = r,
                        !.pc = IF r.execvp /\ r.argv = << >> THEN "undefined"
                               ELSE IF r.returned = "no" THEN "program"
                               ELSE "returned"]
  /\ UNCHANGED <<jobVars, dx>>

\* lines 591 and 633: exit(1) after tryToRunCommand returned
ChildExitsOne ==
  /\ lx.pc = "returned"
  /\ lx' = [lx EXCEPT !.pc = "exited"]
  /\ UNCHANGED <<jobVars, dx>>

LaunchNext ==
  \/ Dispatch
  \/ TryRun
  \/ ChildExitsOne

LaunchSpec == LaunchInit /\ [][LaunchNext]_vars

\* ----------------------------------------------------------- observations
\* background children whose pid has been stored in the table
Registered == {p \in Pids : /\ children[p].kind = "bg"
                            /\ ~(pc = "register" /\ p = backgroundChildPID)}
RECURSIVE SumUpTo(_, _)
SumUpTo(f, n) == IF n = 0 THEN 0 ELSE f[n] + SumUpTo(f, n - 1)
\* completion records printed so far, one per slot a reap pass cleared
ReapedTotal == SumUpTo(reportCount, MaxChildren)
OccupiedCount == Cardinality(Occupied(backgroundPIDs))
TablePids == {backgroundPIDs[i] : i \in Occupied(backgroundPIDs)}
KilledPids == {k[2] : k \in killed}
ForegroundRunning == \E p \in Pids : children[p].kind = "fg" /\ Live(children[p])
SetMax(S) == CHOOSE x \in S : \A y \in S : y <= x
SetMin(S) == CHOOSE x \in S : \A y \in S : x <= y

\* ------------------------------------------------------------------ claims

\* C1: no background child is created while foreground-only mode is active:
\* whenever fork() creates a background child, turnOffBackground is false at
\* that moment.
C1_NoBackgroundInForegroundOnly ==
  [][(nextPid' # nextPid /\ children'[nextPid].kind = "bg")
       => ~turnOffBackground]_vars

\* C2 as stated: the number of occupied slots equals registrations minus
\* slots cleared by reap passes, and never exceeds the capacity.
C2_OccupiedIsSpawnedMinusReaped ==
  /\ OccupiedCount = Cardinality(Registered) - ReapedTotal
  /\ OccupiedCount <= Capacity

\* C2 amended: the number of occupied slots equals registrations minus slots
\* cleared by reap passes minus registrations that overwrote an occupied
\* slot, and never exceeds the capacity.
C2_OccupiedAccounting ==
  /\ OccupiedCount = Cardinality(Registered) - ReapedTotal - Cardinality(lost)
  /\ OccupiedCount <= Capacity

\* a registration has overwritten an occupied slot and a reap pass has
\* cleared another one
C2_Witness ==
  /\ lost # {} /\ ReapedTotal > 0 /\ OccupiedCount > 0
  /\ pc = "prompt"

\* C3: the insertion position is the number of registrations modulo the
\* capacity; Capacity + 1 registrations with no reap in between leave the
\* last pid in slot 0 and the first one overwritten; an overwritten pid is
\* never reported by a reap pass and never signalled at shutdown.
C3_WrapOverwritesSlotZero ==
  /\ nextOpenPosition = Cardinality(Registered) % Capacity
  /\ (Cardinality(Registered) = Capacity + 1 /\ ReapedTotal = 0)
       => /\ backgroundPIDs[0] = SetMax(Registered)
          /\ lost = {SetMin(Registered)}
  /\ \A p \in lost : reportCount[p] = 0 /\ p \notin KilledPids

\* slot 0 was overwritten, its old process has ended, reap passes have run
\* since and the interpreter has shut down through exit
C3_Witness ==
  /\ Cardinality(Registered) = Capacity + 1 /\ ReapedTotal = 0
  /\ \E p \in lost : children[p].st = "zombie"
  /\ pc = "done" /\ shellExit = 0 /\ killed # {}

\* C4: the mode is not flipped (and its message not written) while a
\* foreground child is still running.
C4_FlipOnlyAfterForegroundEnded ==
  [][turnOffBackground' # turnOffBackground => ~ForegroundRunning]_vars

\* C5: once the status record has been taken for a foreground child, what
\* the status built-in reports is how that child really ended, whoever
\* collected it.
C5_StatusIsChildsOutcome ==
  (statusOf = childPid /\ childPid > 0)
    => /\ fgTruth.end.text # <<"none", 0>>
       /\ StatusText = {fgTruth.end.text}
       /\ killedByExit # killedBySignal

\* C6: while a foreground child is running main is between its fork and the
\* return of its wait: no reap pass, no prompt, no input line.
C6_ForegroundWaitSynchronous ==
  ForegroundRunning => pc \in {"fgrecord", "fgwait"}

\* the handler runs while main is blocked in the wait on a running child
C6_Witness ==
  /\ pc = "fgwait" /\ eintr /\ hpc = "wait"
  /\ childPid > 0 /\ Live(children[childPid])
  /\ currentForegroundPID = childPid

\* C7: every completion record a reap pass prints is for a registered child
\* that had ended and was not yet collected, and states how it really ended;
\* the pass reports and clears every slot whose child has ended; no pid is
\* reported twice.
C7_ReportedOnceWithRealOutcome ==
  /\ [][(pc = "reap" /\ pc' = "prompt") =>
          /\ \A r \in printed' :
               /\ children[r[1]].st = "zombie"
               /\ children[r[1]].end.text = <<r[2], r[3]>>
          /\ \A i \in Occupied(backgroundPIDs) :
               children[backgroundPIDs[i]].st = "zombie" =>
                 /\ backgroundPIDs'[i] = EmptySlot
                 /\ \E r \in printed' : r[1] = backgroundPIDs[i]]_vars
  /\ [](\A p \in Pids : reportCount[p] <= 1)

\* C8: a child that ended because its program could not be executed or a
\* redirection target could not be opened has exit status 1, in the open
\* case without execvp having been called; after such a foreground command
\* the status record says, and the status built-in prints, "exit value 1".
C8_LaunchFailureExitsOne ==
  /\ \A p \in Pids :
       children[p].end.cause \in {"openfail", "execfail"} =>
         /\ children[p].end.text = <<"exit", 1>>
         /\ WIFEXITED(children[p].end.status)
         /\ WEXITSTATUS(children[p].end.status) = 1
         /\ children[p].execAttempted = (children[p].end.cause = "execfail")
  /\ (statusOf = childPid /\ fgTruth.end.cause \in {"openfail", "execfail"})
       => /\ StatusText = {<<"exit", 1>>}
          /\ shown \in {<<"none", 0>>, <<"exit", 1>>}

\* C9: SIGINT never ends the interpreter and never ends a background child;
\* a child it ended is a foreground child with the default disposition,
\* which a foreground child has from before program replacement on, while a
\* background child keeps the inherited "ignore".
C9_InterruptOnlyForeground ==
  /\ shellExit # 128 + SIGINT
  /\ \A p \in Pids :
       /\ children[p].end.text = <<"signal", SIGINT>>
            => children[p].kind = "fg" /\ children[p].sigint = "DFL"
       /\ children[p].kind = "bg" => children[p].sigint = "IGN"
       /\ (children[p].kind = "fg" /\ children[p].execAttempted)
            => children[p].sigint = "DFL"

\* SIGINT has ended the foreground child while a background child goes on
\* running and the interpreter goes on
C9_Witness ==
  /\ \E p \in Pids : /\ children[p].kind = "fg"
                     /\ children[p].end.text = <<"signal", SIGINT>>
  /\ \E p \in Pids : children[p].kind = "bg" /\ children[p].st = "run"
  /\ shellExit = -1

\* C10: when the interpreter has shut down, by whichever path, SIGKILL has
\* been sent to exactly the pids that occupy a job-table slot and to nothing
\* else.
C10_ShutdownKillsEveryJob ==
  pc = "done" => /\ KilledPids = TablePids
                 /\ \A k \in killed : /\ backgroundPIDs[k[1]] = k[2]
                                       /\ k[3] = SIGKILL


C16_OnlyReapPassCollectsBackground ==
  /\ [](\A i \in Occupied(backgroundPIDs) :
          children[backgroundPIDs[i]].st # "reaped")
  /\ [][\A p \in Pids :
          (/\ children[p].kind = "bg"
           /\ children[p].st # "reaped" /\ children'[p].st = "reaped")
            => (pc = "reap" /\ pc' = "prompt")]_vars

\* C17: while no foreground child is running the handler's wait returns at
\* once: it selects no child, or a child that has already ended.
C17_ToggleNeverBlocksWithoutForeground ==
  (hpc = "wait" /\ ~ForegroundRunning)
    => LET T == Targets(children, currentForegroundPID) IN
         T = {} \/ T \cap Zombies(children) # {}

\* C18: the status record changes only in the step that follows a foreground
\* wait (lines 640-656), so what status reports changes only there; until
\* that step has been taken once status reports "exit value 0".
C18_StatusRecordFrame ==
  /\ [][(statusRecord' # statusRecord \/ StatusText' # StatusText)
          => (pc = "fgstatus" /\ pc' = "reap" /\ hpc = "idle" /\ hpc' = hpc)]_vars
  /\ [](statusOf = 0 => /\ StatusText = {<<"exit", 0>>}
                        /\ shown \in {<<"none", 0>>, <<"exit", 0>>})

\* status is shown for a foreground child that a signal ended, after toggle
\* deliveries, a background spawn and a reap pass that printed a record
C18_Witness ==
  /\ statusOf > 0 /\ shown[1] = "signal"
  /\ tstpCount > 0 /\ Registered # {} /\ ReapedTotal > 0

\* ------------------------------------------------- the line preprocessor
\* dollarsToPID has returned to main (or the process ended inside it)
Returned == dx.pc \in {"tokenise", "first", "dispatch", "fault"}
\* main holds a readable string from dollarsToPID
Received == Returned /\ ~dx.returned.nullRead /\ ~dx.fixedIsNull
\* positions of S at which a complete marker starts
Markers(S) == {i \in 1..(Len(S) - 1) : S[i] = "$" /\ S[i + 1] = "$"}
\* S ends with a single $ that no $ precedes
TrailingPartial(S) ==
  /\ Len(S) >= 1 /\ S[Len(S)] = "$"
  /\ (Len(S) = 1 \/ S[Len(S) - 1] # "$")
\* S with every marker, taken from the left, replaced by the pid
RECURSIVE ExpandAll(_)
ExpandAll(S) ==
  IF Len(S) < 2 THEN S
  ELSE IF S[1] = "$" /\ S[2] = "$"
    THEN PIDAsString \o ExpandAll(SubSeq(S, 3, Len(S)))
    ELSE <<S[1]>> \o ExpandAll(SubSeq(S, 2, Len(S)))
\* number of markers ExpandAll replaces
RECURSIVE MarkerCount(_)
MarkerCount(S) ==
  IF Len(S) < 2 THEN 0
  ELSE IF S[1] = "$" /\ S[2] = "$"
    THEN 1 + MarkerCount(SubSeq(S, 3, Len(S)))
    ELSE MarkerCount(SubSeq(S, 2, Len(S)))

\* C11: for a line with one complete marker at position i and no trailing
\* partial marker, dollarsToPID returns the line with the marker replaced by
\* the pid, every character before i and after i+1 unchanged and in order
\* (other single $ characters and a marker at the start of the line included).
C11_MarkerReplacedInPlace ==
  \A i \in Markers(dx.line) :
    (Returned /\ Markers(dx.line) = {i} /\ ~TrailingPartial(dx.line))
      => /\ Received
         /\ dx.userInputFixed =
              SubSeq(dx.line, 1, i - 1) \o PIDAsString
                \o SubSeq(dx.line, i + 2, Len(dx.line))

\* C15: a single $ that ends the line and that no $ precedes stays literal:
\* the line dollarsToPID returns still ends with it, and a line without a
\* complete marker comes back unchanged.
C15_TrailingDollarLiteral ==
  (Returned /\ TrailingPartial(dx.line))
    => /\ Received
       /\ Len(dx.userInputFixed) >= 1
       /\ dx.userInputFixed[Len(dx.userInputFixed)] = "$"
       /\ (Markers(dx.line) = {} => dx.userInputFixed = dx.line)

\* C19: a line with k >= 2 non-overlapping markers comes back with every one
\* of them replaced by the pid and the text between and after them kept
\* (two adjacent markers $$$$ are two copies of the pid).
C19_EveryMarkerReplaced ==
  (/\ Returned
   /\ MarkerCount(dx.line) >= 2
   /\ \A j \in 1..Len(ExpandAll(dx.line)) : ExpandAll(dx.line)[j] # "$")
    => /\ Received
       /\ dx.userInputFixed = ExpandAll(dx.line)

\* C20: a line without a word (an empty line, a line of spaces) starts the
\* next iteration: no token is read through, nothing is dispatched.
C20_NoWordNoDispatch ==
  (/\ dx.pc \notin {"read", "expand", "tokenise"}
   /\ \A j \in 1..Len(dx.line) : dx.line[j] = " ")
    => dx.pc = "next"

\* ------------------------------------------------------------ the launcher
\* the child has been through tryToRunCommand
Ran == lx.pc \in {"program", "returned", "exited", "undefined"} /\ lx.run # NoRun
\* the words of the line without one trailing &
Core(words) ==
  IF words[Len(words)] = "&" THEN SubSeq(words, 1, Len(words) - 1) ELSE words
\* the core ends with an input pair and an output pair, in either order
\* (its last word is a file name, that is, not another & as in C1)
EndsWithBothPairs(core) ==
  /\ Len(core) >= 4
  /\ core[Len(core)] # "&"
  /\ {core[Len(core) - 3], core[Len(core) - 1]} = {"<", ">"}
\* index in argumentArray of the file name that follows the operator op in
\* the last four words of the core
FileAfter(core, op) ==
  IF core[Len(core) - 1] = op THEN Len(core) - 1 ELSE Len(core) - 3
\* an input (output) redirection was applied
InputApplied == \E k \in 1..Len(lx.run.consumed) :
                  lx.words[lx.run.consumed[k] + 1] = "<"
OutputApplied == \E k \in 1..Len(lx.run.consumed) :
                   lx.words[lx.run.consumed[k] + 1] = ">"

C13_DevNullOnlyWithoutRedirection ==
  (Ran /\ lx.run.execvp)
    => /\ lx.isBackground => /\ (lx.run.stdin = DevNull <=> ~InputApplied)
                             /\ (lx.run.stdout = DevNull <=> ~OutputApplied)
       /\ InputApplied => lx.run.stdin.to = "file"
       /\ OutputApplied => lx.run.stdout.to = "file"
       /\ (~lx.isBackground /\ ~InputApplied) => lx.run.stdin = Inherited
       /\ (~lx.isBackground /\ ~OutputApplied) => lx.run.stdout = Inherited

\* a background child whose input was redirected and whose output was not
\* has reached execvp
C13_Witness ==
  /\ Ran /\ lx.run.execvp /\ lx.isBackground
  /\ InputApplied /\ ~OutputApplied
  /\ lx.run.stdin.to = "file" /\ lx.run.stdout = DevNull

\* C21: for every line with at least one word that reaches dispatch, the
\* index of the last word is not below 0 when argumentArray is read at it,
\* the program name at index 0 is not taken out as the background marker or
\* as a redirection operator, and execvp gets a vector that is not empty and
\* starts with the program name (a line that is only &, in either mode, and
\* a line that is only a redirection pair included).
C21_ProgramNameKept ==
  /\ lx.pc # "undefined"
  /\ lx.pc \notin {"none", "dispatch"} => lx.argumentArray[0] = lx.words[1]
  /\ Ran => \A k \in 1..Len(lx.run.consumed) : lx.run.consumed[k] # 0
  /\ (Ran /\ lx.run.execvp)
       => lx.run.argv # << >> /\ lx.run.argv[1] = lx.words[1]

====
